---------------------------- MODULE Spec2Model ----------------------------
(***************************************************************************)
(* A model of the two vector-database drivers of VectorDBBench:            *)
(*   TiDBServeless  (backend/clients/tidb_serverless/tidb.py)              *)
(*   MongodbCloud   (backend/clients/mongodb_cloud/mongodb_cloud.py)       *)
(* One behaviour of the model is one driver call: the initial state picks  *)
(* the call and its inputs, the actions are the steps of that call, of its *)
(* worker threads and of the backend it talks to.                          *)
(***************************************************************************)
EXTENDS Integers, Sequences, FiniteSets

(***************************************************************************)
(* Bounds of the model.                                                    *)
(***************************************************************************)
\* largest number of embeddings handed to TiDBServeless.insert_embeddings
MaxN == 5
\* largest insert_concurrency tried besides the constructor's default
MaxConcurrency == 3
\* largest number of full chunks handed to MongodbCloud.insert_embeddings
MaxChunks == 2
\* polls after which a loop of TiDBServeless.optimize is no longer followed
MaxPolls == 4
\* largest pending-rows count the backend reports
MaxPending == 2
\* largest number of search indexes the backend reports for "vector_index"
MaxIndexes == 2
\* the wall-clock deadline, in seconds, a caller of optimize would like honoured
Deadline == 4
\* largest id of a stored record, and largest k, in the search calls
MaxIds == 3
MaxK == 4

(***************************************************************************)
(* Program constants.                                                      *)
(***************************************************************************)
\* tidb.py:36  self.insert_concurrency = 10
DefaultInsertConcurrency == 10
\* tidb.py:103,115  time.sleep(2)
TiDBSleepSeconds == 2
\* mongodb_cloud.py:96  time.sleep(30)
MongoSleepSeconds == 30
\* mongodb_cloud.py:106  batch_size = 1000
batch_size == 1000

VARIABLES
    call,                \* the driver call this behaviour is about
    pc,                  \* position of the calling thread in that call
    result,              \* the (count, error) tuple the call returns
    exc,                 \* the exception the call is raising, "None" if none
    committed,           \* indices of the call's records committed in the backend
    n,                   \* len(embeddings) = len(metadata)
    insert_concurrency,  \* self.insert_concurrency
    insert_batch_size,   \* local of TiDBServeless.insert_embeddings
    next_offset,         \* loop variable i of the submit loop
    futures,             \* the futures list: batch, worker state, seen by as_completed
    batch_start_offset,  \* loop variable of MongodbCloud.insert_embeddings
    insert_count,        \* local of MongodbCloud.insert_embeddings
    clock,               \* seconds the calling thread has slept so far
    poll_clock,          \* value of clock at the latest status poll
    replica_polls,       \* what each _check_tiflash_replica_progress call gave
    pending_polls,       \* what each _get_tiflash_index_pending_rows call gave
    replica_sleeps,      \* time.sleep(2) calls of the first loop of optimize
    pending_sleeps,      \* time.sleep(2) calls of the second loop of optimize
    compactions,         \* ALTER TABLE ... COMPACT requests issued
    index_status,        \* the backend: status of each search index "vector_index"
    search_indexes,      \* the cursor list_search_indexes returned
    cursor_pos,          \* next document the cursor yields
    mongo_polls,         \* list_search_indexes calls issued
    mongo_sleeps,        \* time.sleep(30) calls of MongodbCloud.optimize
    connections_made,    \* connections and clients created so far, numbered from 1
    open_conns,          \* the connections and clients that are open
    query_conn,          \* self.query_conn (self.client for MongodbCloud), 0 if unset
    query_cursor,        \* self.query_cursor: "none", "open" or "closed"
    drop_old,            \* argument of the constructor
    dim,                 \* argument of the constructor
    metric_type,         \* metric_type of the case configuration
    table,               \* the backend: the table or collection and its index
    table_before,        \* the backend when the first constructor call began
    table_after_first,   \* the backend when the first constructor call returned
    requests,            \* the requests the constructor has sent to the backend
    constructions,       \* constructor calls that have returned
    k_limit,             \* argument k of search_embedding
    ranking,             \* the backend: the stored ids, nearest to the query first
    queries,             \* queries search_embedding has sent to the backend
    search_result,       \* the list search_embedding returns
    chunks,              \* the insert_many calls of MongodbCloud.insert_embeddings
    tiflash_progress,    \* the backend: PROGRESS of the table's TiFlash replica
    tiflash_pending_rows \* the backend: rows of the table not yet indexed

insertVars   == <<n, insert_concurrency, insert_batch_size, next_offset, futures>>
mongoInsVars == <<batch_start_offset, insert_count>>
tidbOptVars  == <<replica_polls, pending_polls, replica_sleeps, pending_sleeps,
                  compactions>>
mongoOptVars == <<index_status, search_indexes, cursor_pos, mongo_polls,
                  mongo_sleeps>>
clockVars    == <<clock, poll_clock>>
connVars     == <<connections_made, open_conns, query_conn, query_cursor>>
schemaVars   == <<drop_old, dim, metric_type, table, table_before,
                  table_after_first, requests, constructions>>
searchVars   == <<k_limit, ranking, queries, search_result>>
backendVars  == <<tiflash_progress, tiflash_pending_rows>>

vars == <<call, pc, result, exc, committed, insertVars, mongoInsVars,
          tidbOptVars, mongoOptVars, clockVars, connVars, schemaVars,
          searchVars, chunks, backendVars>>

otherThanInsert == <<mongoInsVars, tidbOptVars, mongoOptVars, clockVars>>

Calls == {"tidb_insert", "mongo_insert", "tidb_optimize", "mongo_optimize",
          "tidb_init", "mongo_init", "tidb_construct", "mongo_construct",
          "tidb_search", "mongo_search"}

\* the calls a benchmark phase makes inside with self.init()
InsideInit == {"tidb_insert", "mongo_insert", "tidb_optimize", "mongo_optimize",
               "tidb_search", "mongo_search"}

NoResult == [count |-> -1, err |-> "unset"]

Min(a, b) == IF a < b THEN a ELSE b

\* the values insert_concurrency takes: an instance attribute, 10 after __init__
ConcurrencyValues == (1..MaxConcurrency) \cup {DefaultInsertConcurrency}

(***************************************************************************)
(* TiDBServeless.insert_embeddings and its workers.                        *)
(***************************************************************************)

\* the indices range(offset, offset + size) of one batch
BatchIndices(f) == {x \in 0..(n - 1) : f.offset <= x /\ x < f.offset + f.size}

Finished(f) == f.state \in {"ok", "err", "raised"}

\* the workers that hold a thread of the pool: connected, the INSERT statement
\* executed or not yet
Running == {k \in 1..Len(futures) : futures[k].state \in {"running", "executed"}}

\* line 191: insert_batch_size = len(embeddings) // self.insert_concurrency
BatchSizeOf(len, conc) == len \div conc

\* lines 191-197: the batch size is computed and the executor entered; range()
\* with a zero step raises ValueError before any batch is submitted
InsertBegin ==
    /\ call = "tidb_insert" /\ pc = "begin"
    /\ insert_batch_size' = BatchSizeOf(n, insert_concurrency)
    /\ IF insert_batch_size' = 0
          THEN pc' = "shutdown" /\ exc' = "ValueError"
          ELSE pc' = "submit" /\ exc' = exc
    /\ next_offset' = 0
    /\ UNCHANGED <<call, result, committed, n, insert_concurrency, futures,
                   otherThanInsert,
                   connVars,
                   schemaVars,
                   searchVars,
                   chunks,
                   backendVars>>

\* lines 197-203: one iteration of the submit loop
SubmitBatch ==
    /\ call = "tidb_insert" /\ pc = "submit"
    /\ next_offset < n
    /\ futures' = Append(futures,
                     [offset |-> next_offset,
                      size   |-> Min(insert_batch_size, n - next_offset),
                      state  |-> "queued",
                      conn   |-> 0,
                      seen   |-> FALSE])
    /\ next_offset' = next_offset + insert_batch_size
    /\ UNCHANGED <<call, pc, result, exc, committed, n, insert_concurrency,
                   insert_batch_size,
                   otherThanInsert,
                   connVars,
                   schemaVars,
                   searchVars,
                   chunks,
                   backendVars>>

\* line 197: the range is exhausted, control reaches as_completed
SubmitDone ==
    /\ call = "tidb_insert" /\ pc = "submit"
    /\ next_offset >= n
    /\ pc' = "collect"
    /\ UNCHANGED <<call, result, exc, committed, n, insert_concurrency,
                   insert_batch_size, next_offset, futures,
                   otherThanInsert,
                   connVars,
                   schemaVars,
                   searchVars,
                   chunks,
                   backendVars>>

\* ThreadPoolExecutor(max_workers=insert_concurrency): work items are taken in
\* submission order by at most max_workers threads
CanStart(k) ==
    /\ k \in 1..Len(futures)
    /\ futures[k].state = "queued"
    /\ \A j \in 1..(k - 1) : futures[j].state # "queued"
    /\ Cardinality(Running) < insert_concurrency

\* the connection of init() handed out instead of a new one
SharedConnection == query_conn

\* lines 67-70: _ensure_connection, pymysql.connect makes a connection of its own
\* at every call
NewConnection == connections_made + 1

\* the connection left in autocommit mode
AutocommitOn == TRUE

\* lines 68-69: pymysql.connect opens the connection without autocommit
Autocommit == FALSE

\* line 164: the worker opens its own connection
WorkerConnect(k) ==
    /\ call = "tidb_insert"
    /\ CanStart(k)
    /\ futures' = [futures EXCEPT ![k].state = "running",
                                  ![k].conn = NewConnection]
    /\ connections_made' = connections_made + 1
    /\ open_conns' = open_conns \cup {NewConnection}
    /\ UNCHANGED <<call, pc, result, exc, committed, n, insert_concurrency,
                   insert_batch_size, next_offset,
                   otherThanInsert,
                   query_conn, query_cursor,
                   schemaVars,
                   searchVars,
                   chunks,
                   backendVars>>

\* lines 166-173: the INSERT statement for the whole batch is executed in the
\* connection's transaction
WorkerExecute(k) ==
    /\ call = "tidb_insert"
    /\ k \in 1..Len(futures) /\ futures[k].state = "running"
    /\ futures' = [futures EXCEPT ![k].state = "executed"]
    /\ committed' = IF Autocommit THEN committed \cup BatchIndices(futures[k])
                                  ELSE committed
    /\ UNCHANGED <<call, pc, result, exc, n, insert_concurrency,
                   insert_batch_size, next_offset,
                   otherThanInsert,
                   connVars,
                   schemaVars,
                   searchVars,
                   chunks,
                   backendVars>>

\* line 164: pymysql.connect raises outside the try block, so the exception is
\* stored in the future instead of being returned
WorkerConnectFails(k) ==
    /\ call = "tidb_insert"
    /\ CanStart(k)
    /\ futures' = [futures EXCEPT ![k].state = "raised"]
    /\ UNCHANGED <<call, pc, result, exc, committed, n, insert_concurrency,
                   insert_batch_size, next_offset,
                   otherThanInsert,
                   connVars,
                   schemaVars,
                   searchVars,
                   chunks,
                   backendVars>>

\* lines 164, 175-177: conn.commit(), return None; leaving the with statement
\* closes the connection
WorkerCommit(k) ==
    /\ call = "tidb_insert"
    /\ k \in 1..Len(futures) /\ futures[k].state = "executed"
    /\ committed' = committed \cup BatchIndices(futures[k])
    /\ futures' = [futures EXCEPT ![k].state = "ok"]
    /\ open_conns' = open_conns \ {futures[k].conn}
    /\ UNCHANGED <<call, pc, result, exc, n, insert_concurrency,
                   insert_batch_size, next_offset,
                   otherThanInsert,
                   connections_made, query_conn, query_cursor,
                   schemaVars,
                   searchVars,
                   chunks,
                   backendVars>>

\* lines 164, 179-183: execute or commit raised; the exception is returned and
\* the connection closed, which rolls back what its transaction holds
WorkerFails(k) ==
    /\ call = "tidb_insert"
    /\ k \in Running
    /\ futures' = [futures EXCEPT ![k].state = "err"]
    /\ open_conns' = open_conns \ {futures[k].conn}
    /\ UNCHANGED <<call, pc, result, exc, committed, n, insert_concurrency,
                   insert_batch_size, next_offset,
                   otherThanInsert,
                   connections_made, query_conn, query_cursor,
                   schemaVars,
                   searchVars,
                   chunks,
                   backendVars>>

\* the test of line 207 left out: a returned exception is taken for None
IsErrorIgnored(state) == FALSE

\* line 207: if ex
IsError(state) == state = "err"

\* line 208: return 0, ex
FailureResult == [count |-> 0, err |-> "Exception"]

\* lines 205-208: as_completed yields a finished future; its result is an
\* exception (return 0, ex), or raises (connect failed), or is None
Collect(k) ==
    /\ call = "tidb_insert" /\ pc = "collect"
    /\ k \in 1..Len(futures)
    /\ Finished(futures[k]) /\ ~futures[k].seen
    /\ futures' = [futures EXCEPT ![k].seen = TRUE]
    /\ IF futures[k].state = "raised"
          THEN pc' = "shutdown" /\ exc' = "ConnectError" /\ result' = result
          ELSE IF IsError(futures[k].state)
                  THEN pc' = "shutdown" /\ result' = FailureResult /\ exc' = exc
                  ELSE UNCHANGED <<pc, result, exc>>
    /\ UNCHANGED <<call, committed, n, insert_concurrency, insert_batch_size,
                   next_offset,
                   otherThanInsert,
                   connVars,
                   schemaVars,
                   searchVars,
                   chunks,
                   backendVars>>

\* line 210: return len(metadata), None
CollectDone ==
    /\ call = "tidb_insert" /\ pc = "collect"
    /\ \A k \in 1..Len(futures) : futures[k].seen
    /\ result' = [count |-> n, err |-> "None"]
    /\ pc' = "shutdown"
    /\ UNCHANGED <<call, exc, committed, n, insert_concurrency,
                   insert_batch_size, next_offset, futures,
                   otherThanInsert,
                   connVars,
                   schemaVars,
                   searchVars,
                   chunks,
                   backendVars>>

\* the executor left with shutdown(wait=False)
ShutdownWithoutWait == TRUE

\* lines 193-195: leaving the with block is executor.shutdown(wait=True)
ShutdownReady == \A k \in 1..Len(futures) : Finished(futures[k])

\* the with block is left: the call returns its tuple or raises
ExecutorExit ==
    /\ call = "tidb_insert" /\ pc = "shutdown"
    /\ ShutdownReady
    /\ pc' = IF exc = "None" THEN "returned" ELSE "raised"
    /\ UNCHANGED <<call, result, exc, committed, n, insert_concurrency,
                   insert_batch_size, next_offset, futures,
                   otherThanInsert,
                   connVars,
                   schemaVars,
                   searchVars,
                   chunks,
                   backendVars>>

(***************************************************************************)
(* MongodbCloud.insert_embeddings.                                         *)
(***************************************************************************)

\* the end of a chunk not clipped to the length of the input
BatchEndOffsetUnclipped(start, len) == start + batch_size

\* line 109: batch_end_offset = min(batch_start_offset + batch_size, len(embeddings))
BatchEndOffset(start, len) == Min(start + batch_size, len)

\* how many documents of a chunk an insert_many that raises has already
\* written: the ordered bulk write stops at the failing document and keeps the
\* ones before it
WrittenBeforeFailure(size) == {j \in {0, 1, size - 1} : 0 <= j /\ j < size}

\* lines 108-118: one chunk is built, inserted and counted
MongoInsertChunk ==
    /\ call = "mongo_insert" /\ pc = "begin"
    /\ batch_start_offset < n
    /\ LET batch_end_offset == BatchEndOffset(batch_start_offset, n)
       IN  /\ committed' = committed \cup (batch_start_offset..(batch_end_offset - 1))
           /\ insert_count' = insert_count + (batch_end_offset - batch_start_offset)
    /\ chunks' = Append(chunks,
                    [first |-> batch_start_offset,
                     end   |-> BatchEndOffset(batch_start_offset, n),
                     ok    |-> TRUE])
    /\ batch_start_offset' = batch_start_offset + batch_size
    /\ UNCHANGED <<call, pc, result, exc, insertVars, tidbOptVars, mongoOptVars,
                   clockVars,
                   connVars,
                   schemaVars,
                   searchVars,
                   backendVars>>

\* lines 117-120: insert_many raises; return (insert_count, e)
MongoInsertChunkFails(j) ==
    /\ call = "mongo_insert" /\ pc = "begin"
    /\ batch_start_offset < n
    /\ j \in WrittenBeforeFailure(BatchEndOffset(batch_start_offset, n)
                                    - batch_start_offset)
    /\ committed' = committed \cup (batch_start_offset..(batch_start_offset + j - 1))
    /\ chunks' = Append(chunks,
                    [first |-> batch_start_offset,
                     end   |-> BatchEndOffset(batch_start_offset, n),
                     ok    |-> FALSE])
    /\ result' = [count |-> insert_count, err |-> "Exception"]
    /\ pc' = "returned"
    /\ UNCHANGED <<call, exc, insertVars, mongoInsVars, tidbOptVars, mongoOptVars,
                   clockVars,
                   connVars,
                   schemaVars,
                   searchVars,
                   backendVars>>

\* line 121: return (len(embeddings), None)
MongoInsertDone ==
    /\ call = "mongo_insert" /\ pc = "begin"
    /\ batch_start_offset >= n
    /\ result' = [count |-> n, err |-> "None"]
    /\ pc' = "returned"
    /\ UNCHANGED <<call, exc, committed, insertVars, mongoInsVars, tidbOptVars,
                   mongoOptVars, clockVars,
                   connVars,
                   schemaVars,
                   searchVars,
                   chunks,
                   backendVars>>

(***************************************************************************)
(* TiDBServeless.optimize.                                                 *)
(***************************************************************************)

\* a poll or request that raised, as an entry of the poll histories
Raised == -1

\* what PROGRESS reads as: 1 when replication is complete, and any other
\* value (here 0) while it is not
ProgressValues == {0, 1}

PendingValues == 0..MaxPending

\* the first loop without its break: it sleeps and polls again whatever it read
ReplicaNeverReady(progress) == TRUE

\* line 101: if progress != 1
ReplicaNotReady(progress) == progress # 1

\* the second loop left at its first poll, whatever it read
IndexAlwaysReady(pending_rows) == FALSE

\* line 113: if pending_rows > 0
IndexNotReady(pending_rows) == pending_rows > 0

\* the exception swallowed and the first loop entered again
AfterErrorRetry == "begin"

\* lines 141-142, 154-155, 125-129: raise e from None, not caught by optimize
AfterError == "raised"

\* lines 99-105: one iteration of the first loop
ReplicaPoll(progress) ==
    /\ call = "tidb_optimize" /\ pc = "begin"
    /\ Len(replica_polls) < MaxPolls
    /\ replica_polls' = Append(replica_polls, progress)
    /\ poll_clock' = clock
    /\ IF ReplicaNotReady(progress)
          THEN /\ replica_sleeps' = replica_sleeps + 1
               /\ clock' = clock + TiDBSleepSeconds
               /\ pc' = pc
          ELSE /\ pc' = "compact"
               /\ UNCHANGED <<replica_sleeps, clock>>
    /\ UNCHANGED <<call, result, exc, committed, insertVars, mongoInsVars,
                   pending_polls, pending_sleeps, compactions, mongoOptVars,
                   connVars,
                   schemaVars,
                   searchVars,
                   chunks,
                   backendVars>>

\* lines 100, 131-142: the poll raises
ReplicaPollRaises ==
    /\ call = "tidb_optimize" /\ pc = "begin"
    /\ Len(replica_polls) < MaxPolls
    /\ replica_polls' = Append(replica_polls, Raised)
    /\ poll_clock' = clock
    /\ pc' = AfterError
    /\ exc' = "PollError"
    /\ UNCHANGED <<call, result, committed, insertVars, mongoInsVars,
                   pending_polls, replica_sleeps, pending_sleeps, compactions,
                   mongoOptVars, clock,
                   connVars,
                   schemaVars,
                   searchVars,
                   chunks,
                   backendVars>>

\* the second loop entered without the compaction request
CompactNotIssued ==
    /\ call = "tidb_optimize" /\ pc = "compact"
    /\ pc' = "pending"
    /\ UNCHANGED <<call, result, exc, committed, insertVars, mongoInsVars,
                   tidbOptVars, mongoOptVars, clockVars, connVars, schemaVars,
                   searchVars,
                   chunks,
                   backendVars>>

\* lines 107-109, 119-124: ALTER TABLE ... COMPACT
Compact ==
    /\ call = "tidb_optimize" /\ pc = "compact"
    /\ compactions' = compactions + 1
    /\ pc' = "pending"
    /\ UNCHANGED <<call, result, exc, committed, insertVars, mongoInsVars,
                   replica_polls, pending_polls, replica_sleeps, pending_sleeps,
                   mongoOptVars, clockVars,
                   connVars,
                   schemaVars,
                   searchVars,
                   chunks,
                   backendVars>>

\* lines 125-129: the compaction request raises
CompactRaises ==
    /\ call = "tidb_optimize" /\ pc = "compact"
    /\ compactions' = compactions + 1
    /\ pc' = AfterError
    /\ exc' = "CompactError"
    /\ UNCHANGED <<call, result, committed, insertVars, mongoInsVars,
                   replica_polls, pending_polls, replica_sleeps, pending_sleeps,
                   mongoOptVars, clockVars,
                   connVars,
                   schemaVars,
                   searchVars,
                   chunks,
                   backendVars>>

\* lines 111-117: one iteration of the second loop; leaving it ends optimize
PendingPoll(pending_rows) ==
    /\ call = "tidb_optimize" /\ pc = "pending"
    /\ Len(pending_polls) < MaxPolls
    /\ pending_polls' = Append(pending_polls, pending_rows)
    /\ poll_clock' = clock
    /\ IF IndexNotReady(pending_rows)
          THEN /\ pending_sleeps' = pending_sleeps + 1
               /\ clock' = clock + TiDBSleepSeconds
               /\ pc' = pc
          ELSE /\ pc' = "returned"
               /\ UNCHANGED <<pending_sleeps, clock>>
    /\ UNCHANGED <<call, result, exc, committed, insertVars, mongoInsVars,
                   replica_polls, replica_sleeps, compactions, mongoOptVars,
                   connVars,
                   schemaVars,
                   searchVars,
                   chunks,
                   backendVars>>

\* lines 112, 144-155: the poll raises
PendingPollRaises ==
    /\ call = "tidb_optimize" /\ pc = "pending"
    /\ Len(pending_polls) < MaxPolls
    /\ pending_polls' = Append(pending_polls, Raised)
    /\ poll_clock' = clock
    /\ pc' = AfterError
    /\ exc' = "PollError"
    /\ UNCHANGED <<call, result, committed, insertVars, mongoInsVars,
                   replica_polls, replica_sleeps, pending_sleeps, compactions,
                   mongoOptVars, clock,
                   connVars,
                   schemaVars,
                   searchVars,
                   chunks,
                   backendVars>>

(***************************************************************************)
(* MongodbCloud.optimize and the backend's index build.                    *)
(***************************************************************************)

IndexStatuses == {"PENDING", "BUILDING", "READY"}

\* the sequences over S of length at most len
SeqsUpTo(S, len) == UNION {[1..m -> S] : m \in 0..len}

\* the backend: the build of one search index advances
IndexBuildAdvances(k) ==
    /\ call = "mongo_optimize" /\ pc \in {"begin", "scan"}
    /\ k \in 1..Len(index_status)
    /\ index_status[k] # "READY"
    /\ index_status' = [index_status EXCEPT ![k] =
                           IF @ = "PENDING" THEN "BUILDING" ELSE "READY"]
    /\ UNCHANGED <<call, pc, result, exc, committed, insertVars, mongoInsVars,
                   tidbOptVars, search_indexes, cursor_pos, mongo_polls,
                   mongo_sleeps, clockVars,
                   connVars,
                   schemaVars,
                   searchVars,
                   chunks,
                   backendVars>>

\* line 82: search_indexes = self.collection.list_search_indexes("vector_index"),
\* a cursor over what the backend reports at this moment
ListSearchIndexes ==
    /\ call = "mongo_optimize" /\ pc = "begin"
    /\ search_indexes' = index_status
    /\ cursor_pos' = 1
    /\ mongo_polls' = mongo_polls + 1
    /\ poll_clock' = clock
    /\ pc' = "scan"
    /\ UNCHANGED <<call, result, exc, committed, insertVars, mongoInsVars,
                   tidbOptVars, index_status, mongo_sleeps, clock,
                   connVars,
                   schemaVars,
                   searchVars,
                   chunks,
                   backendVars>>

\* line 82: the request raises
ListSearchIndexesRaises ==
    /\ call = "mongo_optimize" /\ pc = "begin"
    /\ mongo_polls' = mongo_polls + 1
    /\ poll_clock' = clock
    /\ pc' = "raised"
    /\ exc' = "PollError"
    /\ UNCHANGED <<call, result, committed, insertVars, mongoInsVars,
                   tidbOptVars, index_status, search_indexes, cursor_pos,
                   mongo_sleeps, clock,
                   connVars,
                   schemaVars,
                   searchVars,
                   chunks,
                   backendVars>>

\* lines 87-91: the documents the for loop still gets from the cursor that are
\* not READY
NotReadyAhead == {k \in cursor_pos..Len(search_indexes) :
                     search_indexes[k] # "READY"}

\* the least element of a non-empty set of integers
Least(S) == CHOOSE x \in S : \A y \in S : x <= y

\* lines 84-96: one iteration of the while loop. The for loop resumes the same
\* cursor where the previous iteration left it; it breaks at the first document
\* that is not READY, and ends when the cursor is exhausted
ScanSearchIndexes ==
    /\ call = "mongo_optimize" /\ pc = "scan"
    /\ IF NotReadyAhead # {}
          THEN /\ cursor_pos' = Least(NotReadyAhead) + 1
               /\ mongo_sleeps' = mongo_sleeps + 1
               /\ clock' = clock + MongoSleepSeconds
               /\ pc' = pc
          ELSE /\ cursor_pos' = Len(search_indexes) + 1
               /\ pc' = "returned"
               /\ UNCHANGED <<mongo_sleeps, clock>>
    /\ UNCHANGED <<call, result, exc, committed, insertVars, mongoInsVars,
                   tidbOptVars, index_status, search_indexes, mongo_polls,
                   poll_clock,
                   connVars,
                   schemaVars,
                   searchVars,
                   chunks,
                   backendVars>>

(***************************************************************************)
(* The init() scopes: with self.init(): <body>.                            *)
(***************************************************************************)

\* every variable the init() scopes leave alone
outsideInit == <<result, committed, insertVars, mongoInsVars, tidbOptVars,
                 mongoOptVars, clockVars, schemaVars, searchVars, chunks,
                 backendVars>>

\* tidb.py lines 50, 67-70: self.query_conn = self._ensure_connection()
TiDBInitConnect ==
    /\ call = "tidb_init" /\ pc = "begin"
    /\ connections_made' = connections_made + 1
    /\ open_conns' = open_conns \cup {connections_made'}
    /\ query_conn' = connections_made'
    /\ pc' = "cursor"
    /\ UNCHANGED <<call, exc, query_cursor, outsideInit>>

\* tidb.py lines 50, 68: pymysql.connect raises, nothing was opened
TiDBInitConnectFails ==
    /\ call = "tidb_init" /\ pc = "begin"
    /\ pc' = "raised"
    /\ exc' = "ConnectError"
    /\ UNCHANGED <<call, connVars, outsideInit>>

\* tidb.py line 51: self.query_cursor = self.query_conn.cursor(); the scope is
\* entered at the yield
TiDBInitCursor ==
    /\ call = "tidb_init" /\ pc = "cursor"
    /\ query_cursor' = "open"
    /\ pc' = "scope"
    /\ UNCHANGED <<call, exc, connections_made, open_conns, query_conn,
                   outsideInit>>

\* tidb.py lines 53-55: the body of the with statement ends, normally or with
\* an exception, and the finally clause starts
TiDBScopeEnds(raises) ==
    /\ call = "tidb_init" /\ pc = "scope"
    /\ exc' = IF raises THEN "BodyError" ELSE "None"
    /\ pc' = "finally"
    /\ UNCHANGED <<call, connVars, outsideInit>>

\* tidb.py line 56: self.query_cursor.close()
TiDBCursorClose ==
    /\ call = "tidb_init" /\ pc = "finally"
    /\ query_cursor' = "closed"
    /\ pc' = "close_conn"
    /\ UNCHANGED <<call, exc, connections_made, open_conns, query_conn,
                   outsideInit>>

\* tidb.py line 56: closing the cursor reads the result sets left on a
\* connection that is broken and raises; line 57 is not reached
TiDBCursorCloseFails ==
    /\ call = "tidb_init" /\ pc = "finally"
    /\ exc' = "CloseError"
    /\ pc' = "raised"
    /\ UNCHANGED <<call, connVars, outsideInit>>

\* tidb.py line 57: self.query_conn.close(); control leaves init()
TiDBConnClose ==
    /\ call = "tidb_init" /\ pc = "close_conn"
    /\ open_conns' = open_conns \ {query_conn}
    /\ pc' = IF exc = "None" THEN "returned" ELSE "raised"
    /\ UNCHANGED <<call, exc, connections_made, query_conn, query_cursor,
                   outsideInit>>

\* mongodb_cloud.py lines 72-76: self.client = MongoClient(...); the collection
\* handle is taken and the scope entered at the yield
MongoInitClient ==
    /\ call = "mongo_init" /\ pc = "begin"
    /\ connections_made' = connections_made + 1
    /\ open_conns' = open_conns \cup {connections_made'}
    /\ query_conn' = connections_made'
    /\ pc' = "scope"
    /\ UNCHANGED <<call, exc, query_cursor, outsideInit>>

\* mongodb_cloud.py line 72: MongoClient raises (a malformed connection string)
MongoInitClientFails ==
    /\ call = "mongo_init" /\ pc = "begin"
    /\ pc' = "raised"
    /\ exc' = "ConnectError"
    /\ UNCHANGED <<call, connVars, outsideInit>>

\* mongodb_cloud.py line 76: nothing follows the yield and nothing guards it:
\* the body ends and control leaves init()
MongoScopeEnds(raises) ==
    /\ call = "mongo_init" /\ pc = "scope"
    /\ exc' = IF raises THEN "BodyError" ELSE "None"
    /\ pc' = IF raises THEN "raised" ELSE "returned"
    /\ UNCHANGED <<call, connVars, outsideInit>>

(***************************************************************************)
(* The constructors and the schema they set up.                            *)
(***************************************************************************)

MetricTypes == {"L2", "IP", "COSINE", "None"}

\* the dimensionalities the constructors are called with
Dims == {128, 768}

\* tidb_serverless/config.py lines 26-29, 36-39: parse_metric, index_param
TiDBIndexParam(m) == IF m = "L2" THEN "l2" ELSE "cosine"

\* mongodb_cloud/config.py lines 19-30: parse_metric, index_param
MongoIndexParam(m) ==
    IF m = "L2" THEN "euclidean" ELSE IF m = "IP" THEN "dotProduct" ELSE "cosine"

\* no table or collection of that name
Absent == [exists |-> FALSE, rows |-> {}, dim |-> 0, metric |-> "none"]

\* the states the backend can be in before a constructor runs
TablesOf(metrics) ==
    {Absent} \cup {[exists |-> TRUE, rows |-> r, dim |-> d, metric |-> m] :
                      r \in {{}, {1, 2}}, d \in Dims, m \in metrics}

\* every variable the constructors leave alone
outsideConstruct == <<result, committed, insertVars, mongoInsVars, tidbOptVars,
                      mongoOptVars, clockVars, connVars, drop_old, dim,
                      metric_type, table_before, searchVars, chunks,
                 backendVars>>

\* the constructor has returned: the first return is remembered
Returned(t) ==
    /\ pc' = "returned"
    /\ constructions' = constructions + 1
    /\ table_after_first' = IF constructions = 0 THEN t ELSE table_after_first

\* the drop_old test read as always true
DropAlways(flag) == TRUE

\* tidb.py line 38, mongodb_cloud.py line 40: if drop_old
DropRequested(flag) == flag

\* the drop left out
DropSkipped(t) == t

\* tidb.py line 76: DROP TABLE IF EXISTS; mongodb_cloud.py line 41: drop_collection
DropTable(t) == Absent

\* tidb.py line 88: CREATE TABLE IF NOT EXISTS t (id BIGINT PRIMARY KEY,
\* embedding VECTOR(dim) COMMENT "hnsw(distance=metric)")
CreateTableIfNotExists(t, d, m) ==
    IF t.exists THEN t
                ELSE [exists |-> TRUE, rows |-> {}, dim |-> d, metric |-> m]

\* tidb.py lines 32-40: the attributes are set and drop_old tested
TiDBConstruct ==
    /\ call = "tidb_construct" /\ pc = "begin"
    /\ IF DropRequested(drop_old)
          THEN pc' = "drop" /\ UNCHANGED <<constructions, table_after_first>>
          ELSE Returned(table)
    /\ UNCHANGED <<call, exc, table, requests, outsideConstruct>>

\* tidb.py lines 72-77: _drop_table
TiDBDropTable ==
    /\ call = "tidb_construct" /\ pc = "drop"
    /\ table' = DropTable(table)
    /\ requests' = Append(requests, "drop")
    /\ pc' = "create"
    /\ UNCHANGED <<call, exc, constructions, table_after_first, outsideConstruct>>

\* tidb.py lines 78-80: the drop raises
TiDBDropTableFails ==
    /\ call = "tidb_construct" /\ pc = "drop"
    /\ requests' = Append(requests, "drop")
    /\ pc' = "raised" /\ exc' = "SchemaError"
    /\ UNCHANGED <<call, table, constructions, table_after_first,
                   outsideConstruct>>

\* tidb.py lines 82-90: _create_table
TiDBCreateTable ==
    /\ call = "tidb_construct" /\ pc = "create"
    /\ table' = CreateTableIfNotExists(table, dim, TiDBIndexParam(metric_type))
    /\ requests' = Append(requests, "create")
    /\ Returned(table')
    /\ UNCHANGED <<call, exc, outsideConstruct>>

\* tidb.py lines 91-93: the create raises
TiDBCreateTableFails ==
    /\ call = "tidb_construct" /\ pc = "create"
    /\ requests' = Append(requests, "create")
    /\ pc' = "raised" /\ exc' = "SchemaError"
    /\ UNCHANGED <<call, table, constructions, table_after_first,
                   outsideConstruct>>

\* mongodb_cloud.py lines 31-40: the client is made, the server pinged and
\* drop_old tested
MongoConstruct ==
    /\ call = "mongo_construct" /\ pc = "begin"
    /\ requests' = Append(requests, "ping")
    /\ IF DropRequested(drop_old)
          THEN pc' = "drop" /\ UNCHANGED <<constructions, table_after_first>>
          ELSE Returned(table)
    /\ UNCHANGED <<call, exc, table, outsideConstruct>>

\* mongodb_cloud.py lines 37-38: the client or the ping raises
MongoPingFails ==
    /\ call = "mongo_construct" /\ pc = "begin"
    /\ requests' = Append(requests, "ping")
    /\ pc' = "raised" /\ exc' = "ConnectError"
    /\ UNCHANGED <<call, table, constructions, table_after_first,
                   outsideConstruct>>

\* mongodb_cloud.py line 41: db.drop_collection(collection_name)
MongoDropCollection ==
    /\ call = "mongo_construct" /\ pc = "drop"
    /\ table' = DropTable(table)
    /\ requests' = Append(requests, "drop")
    /\ pc' = "create"
    /\ UNCHANGED <<call, exc, constructions, table_after_first, outsideConstruct>>

\* mongodb_cloud.py line 43: db.create_collection(collection_name), which
\* raises CollectionInvalid when the collection exists
MongoCreateCollection ==
    /\ call = "mongo_construct" /\ pc = "create"
    /\ requests' = Append(requests, "create")
    /\ IF table.exists
          THEN /\ pc' = "raised" /\ exc' = "SchemaError"
               /\ UNCHANGED table
          ELSE /\ pc' = "index" /\ exc' = exc
               /\ table' = [exists |-> TRUE, rows |-> {}, dim |-> 0,
                            metric |-> "none"]
    /\ UNCHANGED <<call, constructions, table_after_first, outsideConstruct>>

\* mongodb_cloud.py lines 44-60: the vectorSearch index "vector_index" is
\* requested with numDimensions = dim and the similarity of the configuration
MongoCreateSearchIndex ==
    /\ call = "mongo_construct" /\ pc = "index"
    /\ table' = [table EXCEPT !.dim = dim,
                              !.metric = MongoIndexParam(metric_type)]
    /\ requests' = Append(requests, "create_index")
    /\ Returned(table')
    /\ UNCHANGED <<call, exc, outsideConstruct>>

\* the same constructor call is made a second time, right after the first
ConstructAgain ==
    /\ call \in {"tidb_construct", "mongo_construct"}
    /\ pc = "returned" /\ constructions = 1
    /\ pc' = "begin"
    /\ UNCHANGED <<call, exc, table, requests, constructions, table_after_first,
                   outsideConstruct>>

(***************************************************************************)
(* search_embedding.                                                       *)
(***************************************************************************)

\* the orders a set of ids can be ranked in
Rankings(S) == {f \in [1..Cardinality(S) -> S] :
                   \A i, j \in 1..Cardinality(S) : i # j => f[i] # f[j]}

\* LIMIT k (tidb.py line 222), "limit": k (mongodb_cloud.py line 137): the
\* backend answers with the k nearest ids at most
NearestK(order, k) == SubSeq(order, 1, Min(k, Len(order)))

\* tidb.py line 224: fetchall() gives one tuple (id,) per row
RowsOf(ids) == [j \in DOMAIN ids |-> <<ids[j]>>]

\* mongodb_cloud.py lines 140-147: aggregate gives one document {"_id": id} per hit
DocsOf(ids) == [j \in DOMAIN ids |-> [_id |-> ids[j]]]

\* the list built back to front
RowIdsReversed(rows) == [j \in DOMAIN rows |-> rows[Len(rows) + 1 - j][1]]

\* tidb.py line 225: [int(i[0]) for i in result]
RowIds(rows) == [j \in DOMAIN rows |-> rows[j][1]]

\* mongodb_cloud.py line 148: [int(r["_id"]) for r in result]
DocIds(docs) == [j \in DOMAIN docs |-> docs[j]._id]

\* every variable search_embedding leaves alone
outsideSearch == <<result, committed, insertVars, mongoInsVars, tidbOptVars,
                   mongoOptVars, clockVars, connVars, schemaVars, k_limit,
                   ranking, chunks,
                 backendVars>>

\* tidb.py lines 219-225: one SELECT ... ORDER BY ... LIMIT k on the query cursor
TiDBSearch ==
    /\ call = "tidb_search" /\ pc = "begin"
    /\ queries' = queries + 1
    /\ search_result' = RowIds(RowsOf(NearestK(ranking, k_limit)))
    /\ pc' = "returned"
    /\ UNCHANGED <<call, exc, outsideSearch>>

\* mongodb_cloud.py lines 130-148: one aggregate with a $vectorSearch stage
MongoSearch ==
    /\ call = "mongo_search" /\ pc = "begin"
    /\ queries' = queries + 1
    /\ search_result' = DocIds(DocsOf(NearestK(ranking, k_limit)))
    /\ pc' = "returned"
    /\ UNCHANGED <<call, exc, outsideSearch>>

\* tidb.py line 221, mongodb_cloud.py line 147: the query raises
SearchFails ==
    /\ call \in {"tidb_search", "mongo_search"} /\ pc = "begin"
    /\ queries' = queries + 1
    /\ pc' = "raised" /\ exc' = "SearchError"
    /\ UNCHANGED <<call, search_result, outsideSearch>>

(***************************************************************************)
(* The specification.                                                      *)
(***************************************************************************)

\* the lengths handed to MongodbCloud.insert_embeddings
MongoSizes == {c * batch_size + r : c \in 0..MaxChunks, r \in {0, 1, batch_size - 1}}

Init ==
    /\ call \in Calls
    /\ pc = "begin"
    /\ result = NoResult
    /\ exc = "None"
    /\ committed = {}
    /\ n \in CASE call = "tidb_insert"  -> 0..MaxN
               [] call = "mongo_insert" -> MongoSizes
               [] OTHER                 -> {0}
    /\ insert_concurrency \in IF call = "tidb_insert" THEN ConcurrencyValues
                                                      ELSE {DefaultInsertConcurrency}
    /\ insert_batch_size = 0
    /\ next_offset = 0
    /\ futures = <<>>
    /\ batch_start_offset = 0
    /\ insert_count = 0
    /\ clock = 0
    /\ poll_clock = 0
    /\ replica_polls = <<>>
    /\ pending_polls = <<>>
    /\ replica_sleeps = 0
    /\ pending_sleeps = 0
    /\ compactions = 0
    /\ index_status \in IF call = "mongo_optimize"
                           THEN SeqsUpTo(IndexStatuses, MaxIndexes)
                           ELSE {<<>>}
    /\ search_indexes = <<>>
    /\ cursor_pos = 1
    /\ mongo_polls = 0
    /\ mongo_sleeps = 0
    /\ connections_made = IF call \in InsideInit THEN 1 ELSE 0
    /\ open_conns = IF call \in InsideInit THEN {1} ELSE {}
    /\ query_conn = IF call \in InsideInit THEN 1 ELSE 0
    /\ query_cursor = IF call \in {"tidb_insert", "tidb_optimize", "tidb_search"}
                          THEN "open" ELSE "none"
    /\ drop_old \in IF call \in {"tidb_construct", "mongo_construct"}
                       THEN BOOLEAN ELSE {FALSE}
    /\ dim \in IF call \in {"tidb_construct", "mongo_construct"}
                  THEN Dims ELSE {0}
    /\ metric_type \in IF call \in {"tidb_construct", "mongo_construct"}
                          THEN MetricTypes ELSE {"None"}
    /\ table \in CASE call = "tidb_construct"  ->
                        TablesOf({TiDBIndexParam(m) : m \in MetricTypes})
                   [] call = "mongo_construct" ->
                        TablesOf({MongoIndexParam(m) : m \in MetricTypes})
                   [] call \in {"tidb_search", "mongo_search"} ->
                        {[exists |-> TRUE, rows |-> r, dim |-> 128,
                          metric |-> "cosine"] : r \in SUBSET (1..MaxIds)}
                   [] OTHER -> {Absent}
    /\ table_before = table
    /\ table_after_first = Absent
    /\ requests = <<>>
    /\ constructions = 0
    /\ k_limit \in IF call \in {"tidb_search", "mongo_search"} THEN 1..MaxK ELSE {0}
    /\ ranking \in IF call \in {"tidb_search", "mongo_search"}
                      THEN Rankings(table.rows) ELSE {<<>>}
    /\ queries = 0
    /\ search_result = <<>>
    /\ chunks = <<>>
    /\ tiflash_progress = 0
    /\ tiflash_pending_rows = 0

Next ==
    \/ InsertBegin
    \/ SubmitBatch
    \/ SubmitDone
    \/ \E k \in DOMAIN futures : WorkerConnect(k)
    \/ \E k \in DOMAIN futures : WorkerConnectFails(k)
    \/ \E k \in DOMAIN futures : WorkerExecute(k)
    \/ \E k \in DOMAIN futures : WorkerCommit(k)
    \/ \E k \in DOMAIN futures : WorkerFails(k)
    \/ \E k \in DOMAIN futures : Collect(k)
    \/ CollectDone
    \/ ExecutorExit
    \/ MongoInsertChunk
    \/ \E j \in 0..(batch_size - 1) : MongoInsertChunkFails(j)
    \/ MongoInsertDone
    \/ \E progress \in ProgressValues : ReplicaPoll(progress)
    \/ ReplicaPollRaises
    \/ Compact
    \/ CompactRaises
    \/ \E pending_rows \in PendingValues : PendingPoll(pending_rows)
    \/ PendingPollRaises
    \/ \E k \in DOMAIN index_status : IndexBuildAdvances(k)
    \/ ListSearchIndexes
    \/ ListSearchIndexesRaises
    \/ ScanSearchIndexes
    \/ TiDBInitConnect
    \/ TiDBInitConnectFails
    \/ TiDBInitCursor
    \/ \E raises \in BOOLEAN : TiDBScopeEnds(raises)
    \/ TiDBCursorClose
    \/ TiDBCursorCloseFails
    \/ TiDBConnClose
    \/ MongoInitClient
    \/ MongoInitClientFails
    \/ \E raises \in BOOLEAN : MongoScopeEnds(raises)
    \/ TiDBConstruct
    \/ TiDBDropTable
    \/ TiDBDropTableFails
    \/ TiDBCreateTable
    \/ TiDBCreateTableFails
    \/ MongoConstruct
    \/ MongoPingFails
    \/ MongoDropCollection
    \/ MongoCreateCollection
    \/ MongoCreateSearchIndex
    \/ ConstructAgain
    \/ TiDBSearch
    \/ MongoSearch
    \/ SearchFails

Spec == Init /\ [][Next]_vars

(***************************************************************************)
(* optimize run to its end: the loops of TiDB.optimize iterate without a   *)
(* bound on the number of polls, each poll reads what the backend holds at *)
(* that moment, and the calling thread keeps running.                      *)
(***************************************************************************)

\* the backend: replication and index build move, forward or back
BackendChanges ==
    /\ call = "tidb_optimize"
    /\ pc \in {"begin", "replica_sleep", "compact", "pending", "pending_sleep"}
    /\ tiflash_progress' \in ProgressValues
    /\ tiflash_pending_rows' \in PendingValues
    /\ <<tiflash_progress', tiflash_pending_rows'>> #
           <<tiflash_progress, tiflash_pending_rows>>
    /\ UNCHANGED <<call, pc, result, exc, committed, insertVars, mongoInsVars,
                   tidbOptVars, mongoOptVars, clockVars, connVars, schemaVars,
                   searchVars, chunks>>

\* tidb.py lines 99-102, 104-105: the poll of the first loop, and its branch
LiveReplicaPoll ==
    /\ call = "tidb_optimize" /\ pc = "begin"
    /\ pc' = IF ReplicaNotReady(tiflash_progress) THEN "replica_sleep"
                                                   ELSE "compact"
    /\ UNCHANGED <<call, result, exc, committed, insertVars, mongoInsVars,
                   tidbOptVars, mongoOptVars, clockVars, connVars, schemaVars,
                   searchVars, chunks, backendVars>>

\* tidb.py line 103: time.sleep(2) returns and the first loop iterates
LiveReplicaSleep ==
    /\ call = "tidb_optimize" /\ pc = "replica_sleep"
    /\ pc' = "begin"
    /\ UNCHANGED <<call, result, exc, committed, insertVars, mongoInsVars,
                   tidbOptVars, mongoOptVars, clockVars, connVars, schemaVars,
                   searchVars, chunks, backendVars>>

\* the second loop polling again whatever it read
LivePendingPollAgain ==
    /\ call = "tidb_optimize" /\ pc = "pending"
    /\ pc' = "pending_sleep"
    /\ UNCHANGED <<call, result, exc, committed, insertVars, mongoInsVars,
                   tidbOptVars, mongoOptVars, clockVars, connVars, schemaVars,
                   searchVars, chunks, backendVars>>

\* tidb.py lines 111-114, 116-117: the poll of the second loop, and its branch
LivePendingPoll ==
    /\ call = "tidb_optimize" /\ pc = "pending"
    /\ pc' = IF IndexNotReady(tiflash_pending_rows) THEN "pending_sleep"
                                                     ELSE "returned"
    /\ UNCHANGED <<call, result, exc, committed, insertVars, mongoInsVars,
                   tidbOptVars, mongoOptVars, clockVars, connVars, schemaVars,
                   searchVars, chunks, backendVars>>

\* tidb.py line 115: time.sleep(2) returns and the second loop iterates
LivePendingSleep ==
    /\ call = "tidb_optimize" /\ pc = "pending_sleep"
    /\ pc' = "pending"
    /\ UNCHANGED <<call, result, exc, committed, insertVars, mongoInsVars,
                   tidbOptVars, mongoOptVars, clockVars, connVars, schemaVars,
                   searchVars, chunks, backendVars>>

\* the polls that raise, at the first poll of a loop or at a later one
LivePollRaises ==
    /\ call = "tidb_optimize" /\ pc \in {"begin", "pending"}
    /\ pc' = AfterError
    /\ exc' = "PollError"
    /\ UNCHANGED <<call, result, committed, insertVars, mongoInsVars,
                   tidbOptVars, mongoOptVars, clockVars, connVars, schemaVars,
                   searchVars, chunks, backendVars>>

LiveInit == Init /\ call \in {"tidb_optimize", "mongo_optimize"}

LiveNext ==
    \/ BackendChanges
    \/ LiveReplicaPoll
    \/ LiveReplicaSleep
    \/ LivePollRaises
    \/ Compact
    \/ CompactRaises
    \/ LivePendingPoll
    \/ LivePendingSleep
    \/ \E k \in DOMAIN index_status : IndexBuildAdvances(k)
    \/ ListSearchIndexes
    \/ ListSearchIndexesRaises
    \/ ScanSearchIndexes

\* the thread that called optimize is never suspended for good: whichever
\* statement it stands at is executed, and time.sleep returns. The backend
\* and the failures are under no obligation.
LiveSpec ==
    /\ LiveInit
    /\ [][LiveNext]_vars
    /\ WF_vars(LiveReplicaPoll)
    /\ WF_vars(LiveReplicaSleep)
    /\ WF_vars(Compact)
    /\ WF_vars(LivePendingPoll)
    /\ WF_vars(LivePendingSleep)
    /\ WF_vars(ListSearchIndexes)
    /\ WF_vars(ScanSearchIndexes)

(***************************************************************************)
(* Properties.                                                             *)
(***************************************************************************)

InsertEnded == call = "tidb_insert" /\ pc \in {"returned", "raised"}

Submitted == call = "tidb_insert" /\ pc \notin {"begin", "submit"}

\* ceil(a / b) for b > 0
CeilDiv(a, b) == (a + b - 1) \div b

\* C1: TiDBServeless.insert_embeddings, given N embeddings and N ids, returns
\* (N, None) for every N >= 0 and every insert_concurrency >= 1 when no
\* worker's driver call fails.
C1_ReturnsAllInserted ==
    (InsertEnded /\ \A k \in DOMAIN futures : futures[k].state = "ok")
        => (pc = "returned" /\ result = [count |-> n, err |-> "None"])

\* C2: the batches TiDBServeless.insert_embeddings submits cover [0, N)
\* exactly once: every index is in exactly one batch, no batch reaches past N.
C2_BatchesCoverRange ==
    Submitted =>
        /\ \A x \in 0..(n - 1) :
              Cardinality({k \in DOMAIN futures :
                              /\ futures[k].offset <= x
                              /\ x < futures[k].offset + futures[k].size}) = 1
        /\ \A k \in DOMAIN futures :
              /\ 0 <= futures[k].offset
              /\ futures[k].size >= 1
              /\ futures[k].offset + futures[k].size <= n

\* C3: TiDBServeless.insert_embeddings submits at most insert_concurrency
\* batches, each of size ceil(N / insert_concurrency) except a possibly
\* shorter last one.
C3_AtMostCBatchesOfCeilSize ==
    Submitted =>
        /\ Len(futures) <= insert_concurrency
        /\ \A k \in DOMAIN futures :
              IF k < Len(futures)
                 THEN futures[k].size = CeilDiv(n, insert_concurrency)
                 ELSE /\ 1 <= futures[k].size
                      /\ futures[k].size <= CeilDiv(n, insert_concurrency)

\* C4: whenever insert_embeddings of either driver returns a non-None error,
\* the count returned with it is the number of records the call committed.
C4_ErrorCountIsCommitted ==
    (call \in {"tidb_insert", "mongo_insert"} /\ pc = "returned"
        /\ result.err # "None")
        => result.count = Cardinality(committed)

\* C5: TiDBServeless.insert_embeddings returns a None error only if every
\* submitted worker committed its batch; if a worker returned an exception the
\* error returned is not None, whatever the order the workers complete in.
C5_NoneOnlyIfAllCommitted ==
    (call = "tidb_insert" /\ pc = "returned") =>
        /\ result.err = "None" =>
              \A k \in DOMAIN futures :
                  /\ futures[k].state = "ok"
                  /\ BatchIndices(futures[k]) \subseteq committed
        /\ (\E k \in DOMAIN futures : futures[k].state = "err")
              => result.err # "None"

\* a worker failed, another one committed and was seen by as_completed before
\* the failure was, and the call has returned
C5_Witness ==
    /\ call = "tidb_insert" /\ pc = "returned"
    /\ result.err = "Exception"
    /\ \E k \in DOMAIN futures : futures[k].state = "err" /\ futures[k].seen
    /\ \E k \in DOMAIN futures : futures[k].state = "ok" /\ futures[k].seen

\* C6: when a worker of TiDBServeless.insert_embeddings fails, the call does
\* not return before every submitted worker has finished: none is cancelled or
\* skipped, and what the successful workers committed stays committed.
C6_ReturnsAfterAllWorkers ==
    (InsertEnded /\ \E k \in DOMAIN futures : futures[k].state \in {"err", "raised"})
        => \A k \in DOMAIN futures :
              /\ Finished(futures[k])
              /\ futures[k].state = "ok" => BatchIndices(futures[k]) \subseteq committed

\* the call returned an error although a worker whose result as_completed
\* never delivered has committed its batch
C6_Witness ==
    /\ call = "tidb_insert" /\ pc = "returned"
    /\ result.err = "Exception"
    /\ \E k \in DOMAIN futures :
          /\ futures[k].state = "ok" /\ ~futures[k].seen
          /\ BatchIndices(futures[k]) # {}
          /\ BatchIndices(futures[k]) \subseteq committed

\* C7: MongodbCloud.optimize returns only when every search index the backend
\* reports for vector_index is READY.
C7_ReturnsOnlyWhenReady ==
    (call = "mongo_optimize" /\ pc = "returned")
        => \A k \in DOMAIN index_status : index_status[k] = "READY"

\* polls 1..K-1 of a history were not ready and poll K was
FirstReadyAt(polls, K, ready) ==
    /\ K \in DOMAIN polls
    /\ polls[K] = ready
    /\ \A j \in 1..(K - 1) : polls[j] # ready /\ polls[j] # Raised

\* C8: in each polling loop of TiDBServeless.optimize, when the status is not
\* ready on the first K-1 polls and ready on the K-th, the loop makes exactly K
\* polls and K-1 sleeps, and no poll of that status follows the ready one.
C8_ExactlyKPolls ==
    call = "tidb_optimize" =>
        /\ \A K \in DOMAIN replica_polls :
              FirstReadyAt(replica_polls, K, 1)
                  => Len(replica_polls) = K /\ replica_sleeps = K - 1
        /\ \A K \in DOMAIN pending_polls :
              FirstReadyAt(pending_polls, K, 0)
                  => Len(pending_polls) = K /\ pending_sleeps = K - 1

\* both loops took three polls, the pending counter going 2, 1, 0
C8_Witness ==
    /\ call = "tidb_optimize" /\ pc = "returned"
    /\ replica_polls = <<0, 0, 1>> /\ replica_sleeps = 2
    /\ pending_polls = <<2, 1, 0>> /\ pending_sleeps = 2

\* C9: optimize honours a deadline: with a status that never becomes ready no
\* poll is issued past the deadline.
C9_NoPollPastDeadline ==
    (/\ call \in {"tidb_optimize", "mongo_optimize"}
     /\ \A j \in DOMAIN replica_polls : replica_polls[j] = 0)
        => poll_clock <= Deadline

\* C10: if a status poll or the compaction request of TiDBServeless.optimize
\* raises, optimize ends with that error: no poll or compaction follows, there
\* is no retry and no normal return.
C10_ErrorsPropagate ==
    call = "tidb_optimize" =>
        /\ exc # "None" <=> pc = "raised"
        /\ \A j \in DOMAIN replica_polls : replica_polls[j] = Raised =>
              /\ j = Len(replica_polls)
              /\ pc = "raised" /\ compactions = 0 /\ pending_polls = <<>>
        /\ \A j \in DOMAIN pending_polls : pending_polls[j] = Raised =>
              /\ j = Len(pending_polls)
              /\ pc = "raised" /\ compactions = 1
        /\ exc = "CompactError" =>
              /\ pc = "raised" /\ compactions = 1 /\ pending_polls = <<>>

\* the second pending-rows poll raised and optimize ended with the error
C10_Witness ==
    /\ call = "tidb_optimize" /\ pc = "raised" /\ exc = "PollError"
    /\ Len(pending_polls) = 2 /\ pending_polls[2] = Raised
    /\ compactions = 1

InitLeft == call \in {"tidb_init", "mongo_init"} /\ pc \in {"returned", "raised"}

\* C11: once control has left the init() scope of either driver, normally,
\* through an exception of the body or through a failure while acquiring or
\* releasing, every connection and cursor opened for the scope is closed.
C11_ScopeReleasesEverything ==
    InitLeft => open_conns = {} /\ query_cursor # "open"


Constructing == call \in {"tidb_construct", "mongo_construct"}

\* C12: constructing a driver with drop_old = False sends no drop, create or
\* index-creation request and leaves the table or collection, its records and
\* its index as they were.
C12_NoDropNoChange ==
    (Constructing /\ ~drop_old) =>
        /\ table = table_before
        /\ \A j \in DOMAIN requests :
              requests[j] \notin {"drop", "create", "create_index"}

\* a table holding records has been through a constructor call without drop_old
C12_Witness ==
    /\ Constructing /\ ~drop_old
    /\ pc = "returned" /\ constructions >= 1
    /\ table.exists /\ table.rows # {}

\* the index descriptor the constructor asks for
Descriptor ==
    IF call = "tidb_construct" THEN TiDBIndexParam(metric_type)
                               ELSE MongoIndexParam(metric_type)

\* C13: constructing a driver with drop_old = True twice in a row, from any
\* prior state of the backend, leaves the backend as constructing it once
\* does: the table exists, is empty and has the dimensionality and the index
\* descriptor asked for.
C13_TwiceAsOnce ==
    (Constructing /\ drop_old /\ constructions = 2) =>
        /\ table = table_after_first
        /\ table = [exists |-> TRUE, rows |-> {}, dim |-> dim,
                    metric |-> Descriptor]

\* the second constructor call has returned, and the backend held records of
\* another dimensionality before the first
C13_Witness ==
    /\ Constructing /\ drop_old /\ constructions = 2 /\ pc = "returned"
    /\ table_before.exists /\ table_before.rows # {} /\ table_before.dim # dim


\* C14: during TiDBServeless.insert_embeddings every batch worker opens a
\* connection of its own and closes it when it finishes; no connection, the
\* query connection of init() included, is used by more than one worker or by
\* two threads at a time.
C14_OwnConnectionPerWorker ==
    call = "tidb_insert" =>
        \A k \in DOMAIN futures :
            /\ k \in Running =>
                  /\ futures[k].conn \in open_conns
                  /\ futures[k].conn # query_conn
                  /\ \A j \in DOMAIN futures :
                        j # k => futures[j].conn # futures[k].conn
            /\ (Finished(futures[k]) /\ futures[k].conn # 0)
                  => futures[k].conn \notin open_conns

\* two workers are at work at once, each on its own connection, and a third
\* one has finished
C14_Witness ==
    /\ call = "tidb_insert"
    /\ Cardinality(Running) >= 2
    /\ \E k \in DOMAIN futures : futures[k].state = "ok" /\ futures[k].conn # 0

\* C19: a TiDB batch worker commits all of its batch's records or none: a
\* worker that returns an exception has committed no record of its batch, and
\* after an insert_embeddings call the committed records are those of the
\* batches whose workers returned None.
C19_AllOrNothing ==
    call = "tidb_insert" =>
        /\ \A k \in DOMAIN futures :
              /\ futures[k].state \in {"err", "raised"}
                    => BatchIndices(futures[k]) \cap committed = {}
              /\ futures[k].state = "ok"
                    => BatchIndices(futures[k]) \subseteq committed
        /\ InsertEnded =>
              committed = UNION {BatchIndices(futures[k]) :
                                    k \in {j \in DOMAIN futures :
                                              futures[j].state = "ok"}}

\* the call has ended, one worker committed its batch and another returned an
\* exception
C19_Witness ==
    /\ InsertEnded
    /\ \E k \in DOMAIN futures :
          futures[k].state = "ok" /\ BatchIndices(futures[k]) # {}
    /\ \E k \in DOMAIN futures :
          futures[k].state = "err" /\ BatchIndices(futures[k]) # {}


\* C15: search_embedding of either driver sends exactly one query to the
\* backend, changes no stored record and returns the ids of the backend's
\* result in the backend's order, none moved, dropped or added; the backend is
\* asked for k rows at most, so at most k ids are returned.
C15_OneQueryIdsInOrder ==
    (call \in {"tidb_search", "mongo_search"} /\ pc = "returned") =>
        /\ queries = 1
        /\ table = table_before
        /\ Len(search_result) <= k_limit
        /\ Len(search_result) = Min(k_limit, Len(ranking))
        /\ \A j \in DOMAIN search_result : search_result[j] = ranking[j]

\* a search over three stored records has returned the two nearest
C15_Witness ==
    /\ call \in {"tidb_search", "mongo_search"} /\ pc = "returned"
    /\ Len(ranking) = 3 /\ k_limit = 2 /\ Len(search_result) = 2
    /\ search_result[1] > search_result[2]


\* the phase of the readiness protocol TiDBServeless.optimize is in
Phase ==
    CASE pc = "begin"    -> "REPLICATING"
      [] pc = "compact"  -> "COMPACTING"
      [] pc = "pending"  -> "INDEX_BUILDING"
      [] pc = "returned" -> "READY"
      [] OTHER           -> "FAILED"

LastOf(polls) == polls[Len(polls)]

\* C16, as claimed: the compaction request of TiDBServeless.optimize is issued
\* only after the index-build wait has observed zero pending unindexed rows
\* (phases in the order REPLICATING, INDEX_BUILDING, COMPACTING, READY).
C16_CompactAfterIndexBuild ==
    (call = "tidb_optimize" /\ compactions >= 1)
        => \E j \in DOMAIN pending_polls : pending_polls[j] = 0

\* C16, amended: TiDBServeless.optimize passes through its phases in the order
\* REPLICATING, COMPACTING, INDEX_BUILDING, READY: the compaction request is
\* issued only after the replica wait has observed progress 1, and pending
\* rows are polled only after the compaction request.
C16_PhaseOrder ==
    call = "tidb_optimize" =>
        /\ Phase = "REPLICATING" => compactions = 0 /\ pending_polls = <<>>
        /\ Phase = "COMPACTING" =>
              /\ replica_polls # <<>> /\ LastOf(replica_polls) = 1
              /\ compactions = 0 /\ pending_polls = <<>>
        /\ Phase = "INDEX_BUILDING" =>
              /\ replica_polls # <<>> /\ LastOf(replica_polls) = 1
              /\ compactions = 1
              /\ \A j \in DOMAIN pending_polls : pending_polls[j] > 0
        /\ Phase = "READY" =>
              /\ compactions = 1
              /\ pending_polls # <<>> /\ LastOf(pending_polls) = 0

\* the index is being built: the table was compacted and pending rows were
\* then polled and found above zero
C16_Witness ==
    /\ call = "tidb_optimize" /\ Phase = "INDEX_BUILDING"
    /\ compactions = 1 /\ Len(pending_polls) >= 1
    /\ Len(replica_polls) >= 2

\* C18: TiDBServeless.optimize issues the COMPACT request exactly once, only
\* after a replica-progress poll returned 1, and returns normally only after a
\* pending-rows poll issued after that compaction returned a value not greater
\* than 0.
C18_CompactOnceThenWait ==
    call = "tidb_optimize" =>
        /\ compactions <= 1
        /\ compactions = 1 => \E j \in DOMAIN replica_polls : replica_polls[j] = 1
        /\ pending_polls # <<>> => compactions = 1
        /\ pc = "returned" =>
              /\ compactions = 1
              /\ \E j \in DOMAIN pending_polls :
                    pending_polls[j] # Raised /\ pending_polls[j] <= 0

\* optimize returned after waiting in both loops
C18_Witness ==
    /\ call = "tidb_optimize" /\ pc = "returned"
    /\ compactions = 1
    /\ Len(replica_polls) >= 2 /\ Len(pending_polls) >= 2


\* the number of records in the chunks of a sequence that were inserted
RECURSIVE InsertedIn(_)
InsertedIn(cs) ==
    IF cs = <<>> THEN 0
    ELSE (IF cs[1].ok THEN cs[1].end - cs[1].first ELSE 0) + InsertedIn(Tail(cs))

\* C17: MongodbCloud.insert_embeddings submits the N records in consecutive
\* chunks of at most 1000, in ascending offset order, each record in exactly
\* one chunk; at the first chunk whose insert_many fails it attempts no later
\* chunk and returns (records of the chunks that succeeded before, the error),
\* a count strictly below N; with no failure it returns (N, None).
C17_ChunksAndCount ==
    call = "mongo_insert" =>
        /\ \A j \in DOMAIN chunks :
              /\ chunks[j].first = IF j = 1 THEN 0 ELSE chunks[j - 1].end
              /\ chunks[j].first < chunks[j].end
              /\ chunks[j].end - chunks[j].first <= 1000
              /\ chunks[j].end <= n
              /\ ~chunks[j].ok => j = Len(chunks) /\ pc = "returned"
        /\ pc = "returned" =>
              IF \E j \in DOMAIN chunks : ~chunks[j].ok
                 THEN /\ result.err = "Exception"
                      /\ result.count = InsertedIn(chunks)
                      /\ result.count < n
                 ELSE /\ result = [count |-> n, err |-> "None"]
                      /\ IF n = 0 THEN chunks = <<>>
                                  ELSE chunks[Len(chunks)].end = n

\* the second of three chunks failed: 1000 records are reported
C17_Witness ==
    /\ call = "mongo_insert" /\ pc = "returned"
    /\ n > 2000
    /\ Len(chunks) = 2 /\ ~chunks[2].ok
    /\ result = [count |-> 1000, err |-> "Exception"]


\* the backend reports the ready status
BackendReady ==
    IF call = "tidb_optimize"
       THEN tiflash_progress = 1 /\ tiflash_pending_rows = 0
       ELSE \A k \in DOMAIN index_status : index_status[k] = "READY"

\* C20: if from some moment on the backend reports the ready status (replica
\* progress 1 and pending rows 0 for TiDB, every index READY for MongoDB) and
\* no poll and no compaction raises, optimize eventually returns to its caller
C20_EventuallyReturns ==
    ([](exc = "None") /\ <>[]BackendReady) => <>(pc = "returned")

\* TiDB.optimize has returned to its caller: nothing raised, the compaction
\* was requested and the backend reports the ready status
C20_Witness ==
    /\ call = "tidb_optimize"
    /\ pc = "returned"
    /\ exc = "None"
    /\ compactions = 1
    /\ BackendReady

=============================================================================
